---- MODULE Spec2Model ----
(***************************************************************************)
(* Model of scripts/update-tpip.ts: the TPIP manifest updater.  One run of *)
(* main() starts with both files read and is the chain PreCheck, Resolve,  *)
(* Missing, Drift, Write; the command may then be invoked again on the     *)
(* file it wrote (Rerun).                                                  *)
(***************************************************************************)
EXTENDS Naturals, Sequences, FiniteSets, TLC

(* ------------------------------------------------------------------ *)
(* Bounds of the model                                                *)
(* ------------------------------------------------------------------ *)
\* longest dependencies object of a lock-file package
MaxDeps == 2
\* longest input manifest
MaxManifest == 2
\* number of successive invocations of the command
MaxRuns == 2
\* deepest chain of resolveInternal frames the engine's stack holds
MaxStack == 3

(* ------------------------------------------------------------------ *)
(* Values                                                             *)
(* ------------------------------------------------------------------ *)
FIXME == "<FIXME>"
UNKNOWN == "UNKNOWN"
\* the JavaScript value undefined, where a string field can hold it
Undefined == "undefined"

Root == ""
ArmDebugA == "@arm-debug/a"
ArmDebugB == "@arm-debug/b"
TypesT == "@types/t"
PkgP == "p"
PkgQ == "q"

\* the names a dependencies object of the lock file may list
DepNames == {ArmDebugA, ArmDebugB, TypesT, PkgP, PkgQ}
\* the names manifest entries carry
TrackedNames == {PkgP, PkgQ}
Versions == {"1.0.0", "2.0.0"}
Licenses == {"MIT", "GPL-3.0"}

\* String.prototype.startsWith on the names of the model
StartsWith(name, prefix) ==
    CASE name \in {ArmDebugA, ArmDebugB} -> prefix \in {"@arm-debug", "@"}
      [] name = TypesT -> prefix \in {"@types", "@"}
      [] OTHER -> FALSE

Range(s) == {s[i] : i \in DOMAIN s}
SeqsUpTo(S, n) == UNION {[1..k -> S] : k \in 0..n}
Injective(s) == \A i, j \in DOMAIN s : s[i] = s[j] => i = j

(* ------------------------------------------------------------------ *)
(* The pure functions of update-tpip.ts                               *)
(* ------------------------------------------------------------------ *)
\* the key of a package in lockJson.packages
NodeModule(name) == IF name = Root THEN <<name>> ELSE <<"node_modules", name>>

\* getPackage: <<package>> when the lock file has the key, <<>> for undefined
getPackage(name, lock) ==
    IF NodeModule(name) \in DOMAIN lock.packages
    THEN <<lock.packages[NodeModule(name)]>>
    ELSE <<>>

\* hasFixMe without its last disjunct
hasFixMeNoUrl(dependency) ==
    \/ dependency.version = FIXME
    \/ dependency.license = FIXME
    \/ dependency.spdx = FIXME

hasFixMe(dependency) ==
    \/ dependency.version = FIXME
    \/ dependency.license = FIXME
    \/ dependency.spdx = FIXME
    \/ dependency.url = FIXME

\* getLicense: inst maps a name to <<license>> when node_modules/<name>/package.json
\* exists and to <<>> when it does not
getLicense(name, inst) ==
    IF inst[name] = <<>> THEN UNKNOWN ELSE inst[name][1]

\* results is the accumulator object: its keys in insertion order, each with its value
HasKey(results, name) == \E i \in DOMAIN results : results[i].name = name
Lookup(results, name) ==
    results[CHOOSE i \in DOMAIN results : results[i].name = name].value
Keys(results) == [i \in DOMAIN results |-> results[i].name]

\* the dependencies object of a package: nodePackage.dependencies ?? {}
DependenciesOf(nodePackage) ==
    IF "dependencies" \in DOMAIN nodePackage THEN nodePackage.dependencies ELSE <<>>

\* the loop body overwriting the range of a name it meets again
recordDependencyLastWins(lock, dependency, acc) ==
    IF HasKey(acc.results, dependency.name)
    THEN LET dependencyPackage == getPackage(dependency.name, lock)
             version == IF dependencyPackage = <<>> THEN Undefined
                        ELSE dependencyPackage[1].version
             kept == [i \in DOMAIN acc.results |->
                         IF acc.results[i].name = dependency.name
                         THEN [name |-> dependency.name, value |-> dependency.range]
                         ELSE acc.results[i]]
         IN  IF Lookup(acc.results, dependency.name) # version
             THEN [acc EXCEPT !.warnings = Append(@, dependency.name), !.results = kept]
             ELSE [acc EXCEPT !.results = kept]
    ELSE [acc EXCEPT !.results =
              Append(@, [name |-> dependency.name, value |-> dependency.range])]

\* the body of the for loop of resolveInternal for a name that is neither
\* internal nor type-only: acc is [error, results, warnings]
recordDependency(lock, dependency, acc) ==
    IF HasKey(acc.results, dependency.name)
    THEN LET dependencyPackage == getPackage(dependency.name, lock)
             version == IF dependencyPackage = <<>> THEN Undefined
                        ELSE dependencyPackage[1].version
         IN  IF Lookup(acc.results, dependency.name) # version
             THEN [acc EXCEPT !.warnings = Append(@, dependency.name)]
             ELSE acc
    ELSE [acc EXCEPT !.results =
              Append(@, [name |-> dependency.name, value |-> dependency.range])]

\* resolveInternal(lockJson, name, results), with the depth of the call: a call
\* the stack cannot hold throws RangeError; an exception ends every loop above it
RECURSIVE resolveInternal(_, _, _, _)
RECURSIVE resolveLoop(_, _, _, _, _)

\* the loop without its test for type-only names
RECURSIVE resolveLoopKeepsTypes(_, _, _, _, _)
resolveLoopKeepsTypes(lock, dependencies, i, acc, depth) ==
    IF i > Len(dependencies) \/ acc.error # "" THEN acc
    ELSE LET dependency == dependencies[i]
             next == IF StartsWith(dependency.name, "@arm-debug")
                     THEN resolveInternal(lock, dependency.name, acc, depth + 1)
                     ELSE recordDependency(lock, dependency, acc)
         IN  resolveLoopKeepsTypes(lock, dependencies, i + 1, next, depth)

\* the loop descending into every package it records, internal or not
RECURSIVE resolveLoopFollowsAll(_, _, _, _, _)
resolveLoopFollowsAll(lock, dependencies, i, acc, depth) ==
    IF i > Len(dependencies) \/ acc.error # "" THEN acc
    ELSE LET dependency == dependencies[i]
             next == IF StartsWith(dependency.name, "@arm-debug")
                     THEN resolveInternal(lock, dependency.name, acc, depth + 1)
                     ELSE IF ~StartsWith(dependency.name, "@types")
                          THEN IF getPackage(dependency.name, lock) = <<>>
                               THEN recordDependency(lock, dependency, acc)
                               ELSE resolveInternal(lock, dependency.name,
                                        recordDependency(lock, dependency, acc),
                                        depth + 1)
                          ELSE acc
         IN  resolveLoopFollowsAll(lock, dependencies, i + 1, next, depth)

resolveLoop(lock, dependencies, i, acc, depth) ==
    IF i > Len(dependencies) \/ acc.error # "" THEN acc
    ELSE LET dependency == dependencies[i]
             next == IF StartsWith(dependency.name, "@arm-debug")
                     THEN resolveInternal(lock, dependency.name, acc, depth + 1)
                     ELSE IF ~StartsWith(dependency.name, "@types")
                          THEN recordDependency(lock, dependency, acc)
                          ELSE acc
         IN  resolveLoop(lock, dependencies, i + 1, next, depth)

\* resolveInternal passing over a package the lock file lacks
resolveInternalSkips(lock, name, acc, depth) ==
    IF depth > MaxStack THEN [acc EXCEPT !.error = "RangeError"]
    ELSE LET nodePackage == getPackage(name, lock)
         IN  IF nodePackage = <<>>
             THEN acc
             ELSE resolveLoop(lock, DependenciesOf(nodePackage[1]), 1, acc, depth)

\* resolveInternal returning what it has when the recursion gets too deep
resolveInternalCutsOff(lock, name, acc, depth) ==
    IF depth > MaxStack THEN acc
    ELSE LET nodePackage == getPackage(name, lock)
         IN  IF nodePackage = <<>>
             THEN [acc EXCEPT !.error = "Cannot resolve"]
             ELSE resolveLoop(lock, DependenciesOf(nodePackage[1]), 1, acc, depth)

resolveInternal(lock, name, acc, depth) ==
    IF depth > MaxStack THEN [acc EXCEPT !.error = "RangeError"]
    ELSE LET nodePackage == getPackage(name, lock)
         IN  IF nodePackage = <<>>
             THEN [acc EXCEPT !.error = "Cannot resolve"]
             ELSE resolveLoop(lock, DependenciesOf(nodePackage[1]), 1, acc, depth)

\* the call of main: resolveInternal(lockJson), name = '' and results = {}
resolveRoot(lock) ==
    resolveInternal(lock, Root, [error |-> "", results |-> <<>>, warnings |-> <<>>], 1)

(* ------------------------------------------------------------------ *)
(* The manifest file: JSON.stringify and JSON.parse of TpipDependency[] *)
(* ------------------------------------------------------------------ *)
Fields == <<"name", "version", "spdx", "url", "license">>

\* JSON.stringify of one entry: its members in key order, those whose value
\* is undefined left out
RECURSIVE members(_, _)
members(dependency, i) ==
    IF i > Len(Fields) THEN <<>>
    ELSE IF dependency[Fields[i]] = Undefined THEN members(dependency, i + 1)
         ELSE <<[key |-> Fields[i], value |-> dependency[Fields[i]]]>>
              \o members(dependency, i + 1)

stringify(tpip) == [i \in DOMAIN tpip |-> members(tpip[i], 1)]

\* reading a member of a parsed object: undefined when the key is absent
Member(object, key) ==
    IF \E i \in DOMAIN object : object[i].key = key
    THEN object[CHOOSE i \in DOMAIN object : object[i].key = key].value
    ELSE Undefined

parse(text) ==
    [i \in DOMAIN text |->
        [name |-> Member(text[i], "name"), version |-> Member(text[i], "version"),
         spdx |-> Member(text[i], "spdx"), url |-> Member(text[i], "url"),
         license |-> Member(text[i], "license")]]

(* ------------------------------------------------------------------ *)
(* The steps of main                                                  *)
(* ------------------------------------------------------------------ *)
\* the filter of the missing block comparing the wrong field
TrackedByUrl(tpip, name) == \E i \in DOMAIN tpip : tpip[i].url = name

Tracked(tpip, name) == \E i \in DOMAIN tpip : tpip[i].name = name

\* missing without its filter: every key of lockedDepencencies
filterMissingKeepsAll(keys, tpip) == keys

\* missing: the keys of lockedDepencencies no manifest entry is named after
RECURSIVE filterMissing(_, _)
filterMissing(keys, tpip) ==
    IF keys = <<>> THEN <<>>
    ELSE IF Tracked(tpip, Head(keys)) THEN filterMissing(Tail(keys), tpip)
         ELSE <<Head(keys)>> \o filterMissing(Tail(keys), tpip)

\* the pushed entry with the detected license in the license field
newEntryLicenseField(dependency, lock, inst) ==
    LET locked == getPackage(dependency, lock)
    IN  [name |-> dependency,
         version |-> IF locked = <<>> THEN FIXME ELSE locked[1].version,
         spdx |-> FIXME,
         url |-> FIXME,
         license |-> getLicense(dependency, inst)]

\* the entry pushed for a missing dependency
newEntry(dependency, lock, inst) ==
    LET locked == getPackage(dependency, lock)
    IN  [name |-> dependency,
         version |-> IF locked = <<>> THEN FIXME ELSE locked[1].version,
         spdx |-> getLicense(dependency, inst),
         url |-> FIXME,
         license |-> FIXME]

\* the drift loop's test on one entry: the lock file has it at another version
versionDrifted(dependency, lock) ==
    LET locked == getPackage(dependency.name, lock)
    IN  locked # <<>> /\ dependency.version # locked[1].version

\* ... and the installed package declares another license than the tracked spdx
licenseDrifted(dependency, lock, inst) ==
    /\ versionDrifted(dependency, lock)
    /\ dependency.spdx # getLicense(dependency.name, inst)

\* the drift loop's body warning about the license without storing it
driftEntryWarnOnly(dependency, lock, inst) ==
    IF versionDrifted(dependency, lock)
    THEN [dependency EXCEPT !.version = getPackage(dependency.name, lock)[1].version]
    ELSE dependency

\* the drift loop's body comparing the license at an unchanged version too
driftEntryAnyVersion(dependency, lock, inst) ==
    LET locked == getPackage(dependency.name, lock)
    IN  IF locked # <<>>
        THEN [dependency EXCEPT !.version = locked[1].version,
                                !.spdx = getLicense(dependency.name, inst)]
        ELSE dependency

\* the body of the drift loop on one entry
driftEntry(dependency, lock, inst) ==
    IF versionDrifted(dependency, lock)
    THEN LET updated == [dependency EXCEPT
                            !.version = getPackage(dependency.name, lock)[1].version]
         IN  IF licenseDrifted(dependency, lock, inst)
             THEN [updated EXCEPT !.spdx = getLicense(dependency.name, inst)]
             ELSE updated
    ELSE dependency

(* ------------------------------------------------------------------ *)
(* src/index.ts: strings are sequences of characters, an optional      *)
(* value is <<>> when absent and <<value>> when given                  *)
(* ------------------------------------------------------------------ *)
Hello == <<"H", "e", "l", "l", "o", ",", " ">>
World == <<"W", "o", "r", "l", "d">>
False == <<"f", "a", "l", "s", "e">>

\* greet with the default applied to an empty name as well
greetDefaultsEmptyName(arg) ==
    LET options == IF arg = <<>> THEN [name |-> <<>>, excited |-> <<>>] ELSE arg[1]
        name == IF options.name = <<>> \/ options.name = << <<>> >>
                THEN World ELSE options.name[1]
        excited == IF options.excited = <<>> THEN TRUE ELSE options.excited[1]
        msg == Hello \o name
    IN  IF excited THEN msg \o <<"!">> ELSE msg \o <<".">>

\* greet({ name = "World", excited = true } = {}): arg is <<>> for a call
\* without argument
greet(arg) ==
    LET options == IF arg = <<>> THEN [name |-> <<>>, excited |-> <<>>] ELSE arg[1]
        name == IF options.name = <<>> THEN World ELSE options.name[1]
        excited == IF options.excited = <<>> THEN TRUE ELSE options.excited[1]
        msg == Hello \o name
    IN  IF excited THEN msg \o <<"!">> ELSE msg \o <<".">>

\* a || b on optional strings: a when it is given and not empty
OrElse(a, b) == IF a # <<>> /\ a[1] # <<>> THEN a ELSE b

\* the options built with ?? in place of ||: an empty argument is taken
entryOptionsNullish(proc) ==
    [name |-> IF proc.argv # <<>> THEN proc.argv ELSE proc.NAME,
     excited |-> <<proc.EXCITED # <<False>> >>]

\* the options the entry point builds from process.argv[2] and process.env
entryOptions(proc) ==
    [name |-> OrElse(proc.argv, OrElse(proc.NAME, <<>>)),
     excited |-> <<proc.EXCITED # <<False>> >>]

VARIABLES
    process,             \* index.ts: argv[2], env.NAME and env.EXCITED
    greeting,            \* index.ts: <<>> before the module ran, then the
                         \* argument and the result of the last call of greet
    logged,              \* index.ts: the messages passed to console.log
    lockJson,            \* package-lock.json, parsed
    installed,           \* node_modules/<name>/package.json: <<license>> or <<>>
    file,                \* the manifest file, as JSON text
    tpipJson,            \* the manifest in memory
    lockedDepencencies,  \* the resolved set
    result,              \* the exit status being computed
    pc,                  \* the step main is at
    run,                 \* which invocation of the command this is
    input,               \* the manifest as this run loaded it
    error,               \* the exception resolveInternal threw in this run, or ""
    warnings,            \* names the resolver warned about in this run
    missing,             \* names this run appended
    written              \* the text each finished write put in the file

vars == <<lockJson, installed, file, tpipJson, lockedDepencencies, result, pc,
          run, input, error, warnings, missing, written, process, greeting,
          logged>>

\* what no step of update-tpip assigns: its two inputs, and the state of index.ts
env == <<lockJson, installed, process, greeting, logged>>

\* the state of update-tpip
tpip == <<lockJson, installed, file, tpipJson, lockedDepencencies, result, pc,
          run, input, error, warnings, missing, written>>

\* index.ts has not run
NoGreeting ==
    /\ process = [argv |-> <<>>, NAME |-> <<>>, EXCITED |-> <<>>]
    /\ greeting = <<>>
    /\ logged = <<>>

\* the module body of index.ts: the greeting built from argv and env, logged
Start ==
    /\ greeting = <<>>
    /\ greeting' = <<[arg |-> <<entryOptions(process)>>,
                      message |-> greet(<<entryOptions(process)>>)]>>
    /\ logged' = Append(logged, greet(<<entryOptions(process)>>))
    /\ UNCHANGED <<tpip, process>>

\* the arguments an importer of the module calls greet with
Names == {<<>>, <<"A", "l">>, <<"B", "o", "b">>}
GreetArgs ==
    {<<>>} \cup {<<o>> : o \in [name : {<<>>} \cup {<<n>> : n \in Names},
                                excited : {<<>>, <<TRUE>>, <<FALSE>>}]}

\* a call of the exported greet
Call ==
    /\ greeting # <<>>
    /\ \E arg \in GreetArgs : greeting' = <<[arg |-> arg, message |-> greet(arg)]>>
    /\ UNCHANGED <<tpip, process, logged>>

\* the loop over hasFixMe
PreCheck ==
    /\ pc = "precheck"
    /\ result' = IF \E i \in DOMAIN tpipJson : hasFixMe(tpipJson[i]) THEN 1 ELSE result
    /\ pc' = "resolve"
    /\ UNCHANGED <<env, file, tpipJson, lockedDepencencies, run, input, error,
                   warnings, missing, written>>

\* the catch block leaving what was accumulated before the throw in place
ResolveKeepsPartial ==
    /\ pc = "resolve"
    /\ LET r == resolveRoot(lockJson)
       IN  /\ error' = r.error
           /\ warnings' = r.warnings
           /\ lockedDepencencies' = r.results
           /\ result' = IF r.error = "" THEN result ELSE 2
    /\ pc' = "missing"
    /\ UNCHANGED <<env, file, tpipJson, run, input, missing, written>>

\* the catch block logging the error without setting the result
ResolveSwallowsError ==
    /\ pc = "resolve"
    /\ LET r == resolveRoot(lockJson)
       IN  /\ error' = r.error
           /\ warnings' = r.warnings
           /\ lockedDepencencies' = IF r.error = "" THEN r.results ELSE lockedDepencencies
    /\ pc' = "missing"
    /\ UNCHANGED <<env, file, tpipJson, result, run, input, missing, written>>

\* try { lockedDepencencies = resolveInternal(lockJson) } catch { result = 2 }
Resolve ==
    /\ pc = "resolve"
    /\ LET r == resolveRoot(lockJson)
       IN  /\ error' = r.error
           /\ warnings' = r.warnings
           /\ lockedDepencencies' = IF r.error = "" THEN r.results ELSE lockedDepencencies
           /\ result' = IF r.error = "" THEN result ELSE 2
    /\ pc' = "missing"
    /\ UNCHANGED <<env, file, tpipJson, run, input, missing, written>>

\* the missing block reporting the names without pushing entries for them
MissingReportsOnly ==
    /\ pc = "missing"
    /\ LET m == filterMissing(Keys(lockedDepencencies), tpipJson)
       IN  /\ missing' = m
           /\ result' = IF Len(m) > 0 THEN 2 ELSE result
    /\ pc' = "drift"
    /\ UNCHANGED <<env, file, tpipJson, lockedDepencencies, run, input, error,
                   warnings, written>>

\* the missing block appending without setting the result
MissingUnflagged ==
    /\ pc = "missing"
    /\ LET m == filterMissing(Keys(lockedDepencencies), tpipJson)
       IN  /\ missing' = m
           /\ tpipJson' = tpipJson \o
                  [i \in DOMAIN m |-> newEntry(m[i], lockJson, installed)]
    /\ pc' = "drift"
    /\ UNCHANGED <<env, file, lockedDepencencies, result, run, input, error,
                   warnings, written>>

\* the missing-dependency block
Missing ==
    /\ pc = "missing"
    /\ LET m == filterMissing(Keys(lockedDepencencies), tpipJson)
       IN  /\ missing' = m
           /\ result' = IF Len(m) > 0 THEN 2 ELSE result
           /\ tpipJson' = tpipJson \o
                  [i \in DOMAIN m |-> newEntry(m[i], lockJson, installed)]
    /\ pc' = "drift"
    /\ UNCHANGED <<env, file, lockedDepencencies, run, input, error, warnings, written>>

\* the drift loop skipped when resolution failed
DriftAfterResolution ==
    /\ pc = "drift"
    /\ tpipJson' = IF error # "" THEN tpipJson
                   ELSE [i \in DOMAIN tpipJson |->
                            driftEntry(tpipJson[i], lockJson, installed)]
    /\ result' = IF /\ error = ""
                    /\ \E i \in DOMAIN tpipJson :
                          licenseDrifted(tpipJson[i], lockJson, installed)
                 THEN 1 ELSE result
    /\ pc' = "write"
    /\ UNCHANGED <<env, file, lockedDepencencies, run, input, error, warnings,
                   missing, written>>

\* the drift loop storing the new license without flagging the run
DriftSilent ==
    /\ pc = "drift"
    /\ tpipJson' = [i \in DOMAIN tpipJson |-> driftEntry(tpipJson[i], lockJson, installed)]
    /\ pc' = "write"
    /\ UNCHANGED <<env, file, lockedDepencencies, result, run, input, error,
                   warnings, missing, written>>

\* the drift loop
Drift ==
    /\ pc = "drift"
    /\ tpipJson' = [i \in DOMAIN tpipJson |-> driftEntry(tpipJson[i], lockJson, installed)]
    /\ result' = IF \E i \in DOMAIN tpipJson : licenseDrifted(tpipJson[i], lockJson, installed)
                 THEN 1 ELSE result
    /\ pc' = "write"
    /\ UNCHANGED <<env, file, lockedDepencencies, run, input, error, warnings,
                   missing, written>>

\* the manifest written only by a run that found nothing to report
WriteOnSuccess ==
    /\ pc = "write"
    /\ file' = IF result = 0 THEN stringify(tpipJson) ELSE file
    /\ written' = IF result = 0 THEN Append(written, stringify(tpipJson)) ELSE written
    /\ pc' = "exit"
    /\ UNCHANGED <<env, tpipJson, lockedDepencencies, result, run, input, error,
                   warnings, missing>>

\* writeFileSync, return result, process.exit(retval)
Write ==
    /\ pc = "write"
    /\ file' = stringify(tpipJson)
    /\ written' = Append(written, stringify(tpipJson))
    /\ pc' = "exit"
    /\ UNCHANGED <<env, tpipJson, lockedDepencencies, result, run, input, error,
                   warnings, missing>>

\* the next invocation starting from the result of the one before
RerunKeepsResult ==
    /\ pc = "exit"
    /\ run < MaxRuns
    /\ run' = run + 1
    /\ tpipJson' = parse(file)
    /\ input' = parse(file)
    /\ lockedDepencencies' = <<>>
    /\ error' = ""
    /\ warnings' = <<>>
    /\ missing' = <<>>
    /\ pc' = "precheck"
    /\ UNCHANGED <<env, file, written, result>>

\* the command is invoked again on the file the last run left: main, up to
\* the two readFileSync calls
Rerun ==
    /\ pc = "exit"
    /\ run < MaxRuns
    /\ run' = run + 1
    /\ result' = 0
    /\ tpipJson' = parse(file)
    /\ input' = parse(file)
    /\ lockedDepencencies' = <<>>
    /\ error' = ""
    /\ warnings' = <<>>
    /\ missing' = <<>>
    /\ pc' = "precheck"
    /\ UNCHANGED <<env, file, written>>

(* ------------------------------------------------------------------ *)
(* The inputs a run may find                                           *)
(* ------------------------------------------------------------------ *)
\* a dependencies object as npm writes it, its keys sorted: at most MaxDeps
\* of the internal package and the two runtime packages, each with a range
SortedNames == <<ArmDebugA, PkgP, PkgQ>>
RECURSIVE pick(_, _)
pick(names, chosen) ==
    IF names = <<>> THEN <<>>
    ELSE (IF Head(names) \in chosen
          THEN <<[name |-> Head(names), range |-> "1.0.0"]>> ELSE <<>>)
         \o pick(Tail(names), chosen)

DepLists ==
    {pick(SortedNames, c) : c \in {c \in SUBSET Range(SortedNames) : Cardinality(c) <= MaxDeps}}

ListsInternal(d) == \E i \in DOMAIN d : d[i].name = ArmDebugA

\* the root package and the internal package of a lock file: either may be
\* absent; the internal package is left out where the root does not list it
Structures ==
    {<<>>}
    \cup {<<root>> : root \in DepLists}
    \cup {<<root, internal>> : root \in {d \in DepLists : ListsInternal(d)},
                               internal \in DepLists}

\* the lock file with that structure, p locked at vp (<<>>: not locked) and q
\* at vq
LockFile(structure, vp, vq) ==
    [packages |->
        [k \in (IF Len(structure) >= 1 THEN {NodeModule(Root)} ELSE {})
               \cup (IF Len(structure) >= 2 THEN {NodeModule(ArmDebugA)} ELSE {})
               \cup (IF vp # <<>> THEN {NodeModule(PkgP)} ELSE {})
               \cup {NodeModule(PkgQ)}
         |-> CASE k = NodeModule(Root) ->
                    [version |-> "0.1.0", dependencies |-> structure[1]]
               [] k = NodeModule(ArmDebugA) ->
                    [version |-> "1.0.0", dependencies |-> structure[2]]
               [] k = NodeModule(PkgP) -> [version |-> vp[1]]
               [] OTHER -> [version |-> vq]]]

LockFiles ==
    {LockFile(s, vp, "2.0.0") : s \in Structures,
                                vp \in {<<>>} \cup {<<v>> : v \in Versions}}

\* node_modules: a package.json with a license, one without, or none at all
Installs ==
    {[n \in DepNames |-> CASE n = PkgP -> lp [] n = PkgQ -> lq [] OTHER -> <<>>] :
        lp \in {<<>>} \cup {<<l>> : l \in Licenses},
        lq \in {<<"MIT">>, <<Undefined>>}}

Entry(name, version, spdx, url, license) ==
    [name |-> name, version |-> version, spdx |-> spdx, url |-> url, license |-> license]

\* the entries of an input manifest: complete ones, and ones with the sentinel
\* in each of the four fields; p is tracked at 1.0.0 and the lock file may have
\* it at either version or not at all, q is locked at 2.0.0 and tracked at
\* either version
Entries ==
    {Entry(PkgP, "1.0.0", "MIT", "https://p", "text"),
     Entry(PkgP, FIXME, "MIT", "https://p", "text"),
     Entry(PkgP, "1.0.0", FIXME, "https://p", "text"),
     Entry(PkgQ, "2.0.0", "MIT", "https://q", "text"),
     Entry(PkgQ, "1.0.0", "MIT", FIXME, "text"),
     Entry(PkgQ, "1.0.0", "MIT", "https://q", FIXME)}

Manifests == SeqsUpTo(Entries, MaxManifest)

\* main has read the manifest and the lock file
Init ==
    /\ NoGreeting
    /\ lockJson \in LockFiles
    /\ installed \in Installs
    /\ \E m \in Manifests :
          /\ file = stringify(m)
          /\ tpipJson = parse(stringify(m))
          /\ input = parse(stringify(m))
    /\ lockedDepencencies = <<>>
    /\ result = 0
    /\ pc = "precheck"
    /\ run = 1
    /\ error = ""
    /\ warnings = <<>>
    /\ missing = <<>>
    /\ written = <<>>

(* ------------------------------------------------------------------ *)
(* Lock files for the resolver: dependencies objects in any key order, *)
(* two internal packages, a type-only name, ranges that differ         *)
(* ------------------------------------------------------------------ *)
\* most dependencies the packages of one lock file list between them
MaxEdges == 3

\* one member of a dependencies object; only the ranges of runtime packages
\* are ever read
Dependency ==
    [name : {PkgP, PkgQ}, range : Versions]
    \cup [name : {ArmDebugA, ArmDebugB, TypesT}, range : {"1.0.0"}]

AnyDepLists == {d \in SeqsUpTo(Dependency, MaxDeps) : Injective(Keys(d))}

\* the root and the two internal packages, each <<>> when the lock file lacks
\* it and <<dependencies>> when it has it
Graphs ==
    {g \in [{Root, ArmDebugA, ArmDebugB} -> {<<>>} \cup {<<d>> : d \in AnyDepLists}] :
        (IF g[Root] = <<>> THEN 0 ELSE Len(g[Root][1]))
        + (IF g[ArmDebugA] = <<>> THEN 0 ELSE Len(g[ArmDebugA][1]))
        + (IF g[ArmDebugB] = <<>> THEN 0 ELSE Len(g[ArmDebugB][1])) <= MaxEdges}

\* the lock file of a graph, p locked at vp (<<>>: not locked) and depending
\* on q, q locked at 2.0.0
GraphLockFile(g, vp) ==
    [packages |->
        [k \in {NodeModule(n) : n \in {n \in DOMAIN g : g[n] # <<>>}}
               \cup (IF vp # <<>> THEN {NodeModule(PkgP)} ELSE {})
               \cup {NodeModule(PkgQ)}
         |-> CASE k = NodeModule(Root) ->
                    [version |-> "0.1.0", dependencies |-> g[Root][1]]
               [] k = NodeModule(ArmDebugA) ->
                    [version |-> "1.0.0", dependencies |-> g[ArmDebugA][1]]
               [] k = NodeModule(ArmDebugB) ->
                    [version |-> "1.0.0", dependencies |-> g[ArmDebugB][1]]
               [] k = NodeModule(PkgP) ->
                    [version |-> vp[1],
                     dependencies |-> <<[name |-> PkgQ, range |-> "1.0.0"]>>]
               [] OTHER -> [version |-> "2.0.0"]]]

GraphLockFiles ==
    {GraphLockFile(g, vp) : g \in Graphs, vp \in {<<>>} \cup {<<v>> : v \in Versions}}

\* main has read one of these lock files and an empty manifest
InitResolver ==
    /\ NoGreeting
    /\ lockJson \in GraphLockFiles
    /\ installed = [n \in DepNames |-> IF n \in {PkgP, PkgQ} THEN <<"MIT">> ELSE <<>>]
    /\ file = stringify(<<>>)
    /\ tpipJson = parse(stringify(<<>>))
    /\ input = parse(stringify(<<>>))
    /\ lockedDepencencies = <<>>
    /\ result = 0
    /\ pc = "precheck"
    /\ run = 1
    /\ error = ""
    /\ warnings = <<>>
    /\ missing = <<>>
    /\ written = <<>>

Next == PreCheck \/ Resolve \/ Missing \/ Drift \/ Write \/ Rerun

Spec == Init /\ [][Next]_vars

SpecResolver == InitResolver /\ [][Next]_vars

\* main has read one of these lock files, p locked at 2.0.0, and a manifest
\* tracking p at 1.0.0 with the license its package.json declares or another
InitTracked ==
    /\ NoGreeting
    /\ lockJson \in {GraphLockFile(g, <<"2.0.0">>) : g \in Graphs}
    /\ installed = [n \in DepNames |-> IF n \in {PkgP, PkgQ} THEN <<"MIT">> ELSE <<>>]
    /\ \E l \in Licenses :
          LET m == <<Entry(PkgP, "1.0.0", l, "https://p", "text")>>
          IN  /\ file = stringify(m)
              /\ tpipJson = parse(stringify(m))
              /\ input = parse(stringify(m))
    /\ lockedDepencencies = <<>>
    /\ result = 0
    /\ pc = "precheck"
    /\ run = 1
    /\ error = ""
    /\ warnings = <<>>
    /\ missing = <<>>
    /\ written = <<>>

SpecTracked == InitTracked /\ [][Next]_vars

\* index.ts is started with some argument and environment; update-tpip is not run
InitGreet ==
    /\ process \in [argv : {<<>>} \cup {<<n>> : n \in Names},
                    NAME : {<<>>} \cup {<<n>> : n \in Names},
                    EXCITED : {<<>>, <<False>>, <<World>>, << <<>> >>}]
    /\ greeting = <<>>
    /\ logged = <<>>
    /\ lockJson = [packages |-> <<>>]
    /\ installed = [n \in DepNames |-> <<>>]
    /\ file = <<>>
    /\ tpipJson = <<>>
    /\ lockedDepencencies = <<>>
    /\ result = 0
    /\ pc = "exit"
    /\ run = 1
    /\ input = <<>>
    /\ error = ""
    /\ warnings = <<>>
    /\ missing = <<>>
    /\ written = <<>>

NextGreet == Start \/ Call

SpecGreet == InitGreet /\ [][NextGreet]_vars


(* ------------------------------------------------------------------ *)
(* Properties of one run, stated on what the run was given and wrote  *)
(* ------------------------------------------------------------------ *)
Exited == pc = "exit"

\* what the environment holds for a name, read off the inputs directly
IsLocked(name) == <<"node_modules", name>> \in DOMAIN lockJson.packages
LockedVersion(name) == lockJson.packages[<<"node_modules", name>>].version
DeclaredLicense(name) ==
    IF installed[name] = <<>> THEN "UNKNOWN" ELSE installed[name][1]

\* the manifest the run left in the file
WrittenManifest == parse(file)

\* the entries the run appended, by position
AppendedPositions == (Len(input) + 1)..Len(tpipJson)

InputHasSentinel ==
    \E i \in DOMAIN input :
        \/ input[i].version = "<FIXME>"
        \/ input[i].spdx = "<FIXME>"
        \/ input[i].url = "<FIXME>"
        \/ input[i].license = "<FIXME>"

\* a tracked entry whose version and license both drifted
LicenseDriftAt(i) ==
    /\ IsLocked(input[i].name)
    /\ input[i].version # LockedVersion(input[i].name)
    /\ input[i].spdx # DeclaredLicense(input[i].name)

SpdxChanged == \E i \in DOMAIN input : WrittenManifest[i].spdx # input[i].spdx

\* C1: a run that appended a missing dependency exits 2, license drift on a
\* tracked entry notwithstanding.
C1_MissingExitsTwo == (Exited /\ missing # <<>>) => result = 2

\* C2: a run whose resolution failed exits 2.
C2_FailedResolutionExitsTwo == (Exited /\ error # "") => result = 2

\* C3: once the pre-check has seen a sentinel in the input manifest the result
\* is non-zero at every later step of the run, and so is the exit status.
C3_SentinelNeverExitsZero ==
    (pc # "precheck" /\ InputHasSentinel) => result # 0

\* a run that exits 1 for the sentinel alone: it resolved, appended nothing and
\* changed nothing
C3_Witness ==
    /\ Exited /\ InputHasSentinel /\ result = 1
    /\ error = "" /\ missing = <<>> /\ tpipJson = input /\ input # <<>>

\* C4 as the specification words it: an appended entry has the locked version,
\* the detected license in its license field, and the placeholder in spdx and url.
C4_AppendedLicenseDetected ==
    pc \in {"drift", "write", "exit"} =>
        \A i \in AppendedPositions :
            /\ IsLocked(tpipJson[i].name)
                  => tpipJson[i].version = LockedVersion(tpipJson[i].name)
            /\ tpipJson[i].license = DeclaredLicense(tpipJson[i].name)
            /\ tpipJson[i].spdx = "<FIXME>"
            /\ tpipJson[i].url = "<FIXME>"

\* C4: from the moment it is appended until the run exits, an entry appended
\* for a missing dependency has the locked version (the placeholder when the
\* lock file has no node_modules/<name>), what getLicense returns in its spdx
\* field, and the placeholder in its url and license fields; the file has it so.
C4_AppendedSpdxDetected ==
    /\ pc \in {"drift", "write", "exit"} =>
          /\ Len(tpipJson) = Len(input) + Len(missing)
          /\ \A i \in AppendedPositions :
                /\ tpipJson[i].name = missing[i - Len(input)]
                /\ tpipJson[i].version = IF IsLocked(tpipJson[i].name)
                                         THEN LockedVersion(tpipJson[i].name)
                                         ELSE "<FIXME>"
                /\ tpipJson[i].spdx = DeclaredLicense(tpipJson[i].name)
                /\ tpipJson[i].url = "<FIXME>"
                /\ tpipJson[i].license = "<FIXME>"
    /\ Exited => WrittenManifest = tpipJson

\* two entries appended in one run, one locked and one not
C4_Witness ==
    /\ Exited /\ Len(missing) = 2
    /\ \E i, j \in AppendedPositions :
          /\ IsLocked(tpipJson[i].name) /\ tpipJson[i].spdx = "undefined"
          /\ ~IsLocked(tpipJson[j].name) /\ tpipJson[j].version = "<FIXME>"

\* C5: the written manifest has the locked version for every input entry whose
\* name the lock file has at another version, resolved or not.
C5_LockedVersionWritten ==
    Exited =>
        \A i \in DOMAIN input :
            (IsLocked(input[i].name) /\ input[i].version # LockedVersion(input[i].name))
                => /\ i \in DOMAIN WrittenManifest
                   /\ WrittenManifest[i].name = input[i].name
                   /\ WrittenManifest[i].version = LockedVersion(input[i].name)

\* resolution failed, and an entry was brought to the locked version all the same
C5_Witness ==
    /\ Exited /\ error # ""
    /\ \E i \in DOMAIN input :
          /\ IsLocked(input[i].name)
          /\ input[i].version # LockedVersion(input[i].name)
          /\ WrittenManifest[i].version = LockedVersion(input[i].name)

\* C6 as the specification words it: an input entry the lock file has, whose
\* spdx differs from the detected license, is written with the detected license
\* and the exit status is non-zero, version changed or not.
C6_LicenseDriftAnyVersion ==
    Exited =>
        \A i \in DOMAIN input :
            (IsLocked(input[i].name) /\ input[i].spdx # DeclaredLicense(input[i].name))
                => /\ WrittenManifest[i].spdx = DeclaredLicense(input[i].name)
                   /\ result # 0

\* C6: an input entry the lock file has at another version, whose spdx differs
\* from the detected license, is written with the detected license and the exit
\* status is non-zero; at an unchanged version the spdx is written as it was.
C6_LicenseDriftWithVersion ==
    Exited =>
        \A i \in DOMAIN input :
            /\ LicenseDriftAt(i) =>
                  /\ WrittenManifest[i].spdx = DeclaredLicense(input[i].name)
                  /\ result # 0
            /\ (IsLocked(input[i].name) /\ input[i].version = LockedVersion(input[i].name))
                  => WrittenManifest[i].spdx = input[i].spdx

\* a license drift is the only thing the run found
C6_Witness ==
    /\ Exited /\ result = 1 /\ ~InputHasSentinel /\ error = "" /\ missing = <<>>
    /\ \E i \in DOMAIN input :
          LicenseDriftAt(i) /\ WrittenManifest[i].spdx = DeclaredLicense(input[i].name)

\* C7: a run that wrote an input entry's spdx with another value than it read
\* exits non-zero.
C7_SpdxChangeNeverExitsZero == (Exited /\ SpdxChanged) => result # 0

\* the spdx of a tracked entry was replaced by a declared license
C7_Witness ==
    /\ Exited /\ SpdxChanged /\ result # 0
    /\ \E i \in DOMAIN input :
          input[i].spdx = "MIT" /\ WrittenManifest[i].spdx = "GPL-3.0"

\* C8: every later run writes what the run before it wrote.
C8_RoundTripIdempotent ==
    \A k \in DOMAIN written : k > 1 => written[k] = written[k - 1]

\* the second run has written, after a first run that appended an entry and
\* changed an input entry
C8_Witness ==
    /\ Exited /\ run = 2 /\ Len(written) = 2 /\ written[2] = written[1]
    /\ \E i \in DOMAIN input :
          input[i].url = "<FIXME>" /\ input[i].license = "<FIXME>"
    /\ \E i \in DOMAIN input : input[i].version = "2.0.0" /\ input[i].spdx = "GPL-3.0"

\* C9 as the specification words it: a run that exits 0 wrote no sentinel, and
\* no run repairs a sentinel: a field that held it in the input is written with it.
C9_SentinelNeverRepaired ==
    Exited =>
        /\ result = 0 =>
              \A i \in DOMAIN WrittenManifest :
                  /\ WrittenManifest[i].version # "<FIXME>"
                  /\ WrittenManifest[i].spdx # "<FIXME>"
                  /\ WrittenManifest[i].url # "<FIXME>"
                  /\ WrittenManifest[i].license # "<FIXME>"
        /\ \A i \in DOMAIN input :
              /\ input[i].version = "<FIXME>" => WrittenManifest[i].version = "<FIXME>"
              /\ input[i].spdx = "<FIXME>" => WrittenManifest[i].spdx = "<FIXME>"
              /\ input[i].url = "<FIXME>" => WrittenManifest[i].url = "<FIXME>"
              /\ input[i].license = "<FIXME>" => WrittenManifest[i].license = "<FIXME>"

\* C9: a run that exits 0 wrote no sentinel; a sentinel in the url or license
\* field of an input entry is written as it was, and one in the version or spdx
\* field is replaced only by the drift pass, for a name the lock file has.
C9_NoSentinelAfterSuccess ==
    Exited =>
        /\ result = 0 =>
              \A i \in DOMAIN WrittenManifest :
                  /\ WrittenManifest[i].version # "<FIXME>"
                  /\ WrittenManifest[i].spdx # "<FIXME>"
                  /\ WrittenManifest[i].url # "<FIXME>"
                  /\ WrittenManifest[i].license # "<FIXME>"
        /\ \A i \in DOMAIN input :
              /\ input[i].url = "<FIXME>" => WrittenManifest[i].url = "<FIXME>"
              /\ input[i].license = "<FIXME>" => WrittenManifest[i].license = "<FIXME>"
              /\ (input[i].version = "<FIXME>" /\ ~IsLocked(input[i].name))
                    => WrittenManifest[i].version = "<FIXME>"
              /\ (input[i].spdx = "<FIXME>" /\ ~IsLocked(input[i].name))
                    => WrittenManifest[i].spdx = "<FIXME>"

\* a run exits 0 on a manifest of two entries after bringing one to the locked
\* version
C9_Witness ==
    /\ Exited /\ result = 0 /\ Len(input) = 2
    /\ \E i \in DOMAIN input : WrittenManifest[i].version # input[i].version

\* C10: the exit status is 0, 1 or 2, and it is 0 exactly when the input has no
\* sentinel, resolution succeeded, nothing was missing and no spdx was changed.
C10_ExitZeroExactly ==
    Exited =>
        /\ result \in {0, 1, 2}
        /\ result = 0 <=>
              (~InputHasSentinel /\ error = "" /\ missing = <<>> /\ ~SpdxChanged)

\* a run whose only change is the version of a tracked entry exits 0
C10_Witness ==
    /\ Exited /\ result = 0 /\ error = "" /\ missing = <<>>
    /\ Len(WrittenManifest) = Len(input)
    /\ \E i \in DOMAIN input :
          /\ WrittenManifest[i].version # input[i].version
          /\ WrittenManifest[i] = [input[i] EXCEPT !.version = LockedVersion(input[i].name)]

\* C11: a run writes the manifest once, as its last step: no write of the run
\* has happened while it is at an earlier step, exactly one when it has exited,
\* and the file then holds the manifest as the drift pass left it.
C11_WritesOnceAtEnd ==
    /\ pc \in {"precheck", "resolve", "missing", "drift", "write"}
          => Len(written) + 1 = run
    /\ Exited => /\ Len(written) = run
                 /\ written[run] = file
                 /\ WrittenManifest = tpipJson

\* a run whose resolution failed has exited with status 2 and its one write
C11_Witness ==
    /\ Exited /\ run = 1 /\ error # "" /\ result = 2
    /\ Len(written) = 1 /\ Len(written[1]) > 0

(* ------------------------------------------------------------------ *)
(* Properties of the resolver, stated on the lock file                *)
(* ------------------------------------------------------------------ *)
Resolved == pc \in {"missing", "drift", "write", "exit"}

InternalName(name) == name \in {"@arm-debug/a", "@arm-debug/b"}
TypeOnlyName(name) == name = "@types/t"
RuntimeName(name) == ~InternalName(name) /\ ~TypeOnlyName(name)

\* the lock file's package of a name, and what it lists
PackageKey(name) == IF name = "" THEN <<"">> ELSE <<"node_modules", name>>
HasPackage(name) == PackageKey(name) \in DOMAIN lockJson.packages
Listed(name) ==
    IF HasPackage(name) /\ "dependencies" \in DOMAIN lockJson.packages[PackageKey(name)]
    THEN lockJson.packages[PackageKey(name)].dependencies
    ELSE <<>>
ListedNames(name) == {Listed(name)[i].name : i \in DOMAIN Listed(name)}

ResolvedKeys == {lockedDepencencies[i].name : i \in DOMAIN lockedDepencencies}
ResolvedValue(name) ==
    lockedDepencencies[CHOOSE i \in DOMAIN lockedDepencencies :
                           lockedDepencencies[i].name = name].value

\* C12: when the root lists no internal name, the resolved set has exactly the
\* root's direct dependency names that are not type-only, each with the range
\* the root declares.
C12_FlatRootResolvesDirect ==
    (Resolved /\ HasPackage("") /\ \A n \in ListedNames("") : ~InternalName(n)) =>
        /\ error = ""
        /\ ResolvedKeys = {n \in ListedNames("") : ~TypeOnlyName(n)}
        /\ Len(lockedDepencencies) = Cardinality(ResolvedKeys)
        /\ \A i \in DOMAIN Listed("") :
              ~TypeOnlyName(Listed("")[i].name)
                  => ResolvedValue(Listed("")[i].name) = Listed("")[i].range

\* the root lists a type-only name and a runtime package at range 2.0.0, and
\* only the latter is resolved
C12_Witness ==
    /\ Resolved /\ HasPackage("") /\ error = ""
    /\ ListedNames("") = {"@types/t", "p"}
    /\ ResolvedKeys = {"p"} /\ ResolvedValue("p") = "2.0.0"

\* the packages the traversal descends into: the root, and the internal names
\* listed by a package it descends into
RECURSIVE Closure(_)
Closure(S) ==
    LET T == S \cup {n \in UNION {ListedNames(m) : m \in S} : InternalName(n)}
    IN  IF T = S THEN S ELSE Closure(T)
Visited == Closure({""})

\* an internal package that is among its own internal descendants
Cyclic ==
    \E n \in Visited :
        /\ InternalName(n)
        /\ n \in Closure({m \in ListedNames(n) : InternalName(m)})

\* C14: the keys of a resolved set are exactly the runtime names listed by the
\* root or by an internal package reached from it through internal packages;
\* what a runtime package lists is not followed.
C14_KeysAreInternalClosure ==
    (Resolved /\ error = "") =>
        /\ ResolvedKeys = {d \in UNION {ListedNames(n) : n \in Visited} : RuntimeName(d)}
        /\ \A k \in ResolvedKeys : ~InternalName(k) /\ ~TypeOnlyName(k)
        /\ Len(lockedDepencencies) = Cardinality(ResolvedKeys)

\* p is resolved through two internal packages, and the q that p lists is not
C14_Witness ==
    /\ Resolved /\ error = ""
    /\ ListedNames("") = {"@arm-debug/a"}
    /\ ListedNames("@arm-debug/a") = {"@arm-debug/b"}
    /\ ListedNames("@arm-debug/b") = {"p"}
    /\ ListedNames("p") = {"q"}
    /\ ResolvedKeys = {"p"}

\* the runtime dependencies in the order the traversal meets them, each with
\* its range and the package listing it (for a lock file that resolves)
RECURSIVE Walk(_, _, _)
Walk(name, i, fuel) ==
    IF fuel = 0 \/ i > Len(Listed(name)) THEN <<>>
    ELSE LET d == Listed(name)[i]
         IN  (IF InternalName(d.name) THEN Walk(d.name, 1, fuel - 1)
              ELSE IF TypeOnlyName(d.name) THEN <<>>
              ELSE <<[name |-> d.name, range |-> d.range, by |-> name]>>)
             \o Walk(name, i + 1, fuel)
Encounters == Walk("", 1, Cardinality(Visited) + 1)

FirstOf(name) == CHOOSE i \in DOMAIN Encounters :
    /\ Encounters[i].name = name
    /\ \A j \in DOMAIN Encounters : Encounters[j].name = name => i <= j
LastOf(name) == CHOOSE i \in DOMAIN Encounters :
    /\ Encounters[i].name = name
    /\ \A j \in DOMAIN Encounters : Encounters[j].name = name => j <= i
MetWithDifferentRanges(name) ==
    \E i, j \in DOMAIN Encounters :
        /\ Encounters[i].name = name /\ Encounters[j].name = name
        /\ Encounters[i].range # Encounters[j].range

\* C15 as the specification words it: of a name met with different ranges, the
\* last range is kept when the entry was recorded from the root's own list and
\* the first when it was recorded inside an internal package.
C15_LastSeenWinsAtRoot ==
    (Resolved /\ error = "") =>
        \A n \in ResolvedKeys :
            MetWithDifferentRanges(n) =>
                ResolvedValue(n) = IF Encounters[FirstOf(n)].by = ""
                                   THEN Encounters[LastOf(n)].range
                                   ELSE Encounters[FirstOf(n)].range

\* C15: every resolved name keeps the range of the first place the traversal
\* met it, in the root's list or inside an internal package alike.
C15_FirstSeenWins ==
    (Resolved /\ error = "") =>
        /\ ResolvedKeys = {Encounters[i].name : i \in DOMAIN Encounters}
        /\ \A n \in ResolvedKeys : ResolvedValue(n) = Encounters[FirstOf(n)].range

\* p is met in the root's list first and inside an internal package later, at
\* another range, and keeps the root's
C15_Witness ==
    /\ Resolved /\ error = "" /\ MetWithDifferentRanges("p")
    /\ Encounters[FirstOf("p")].by = "" /\ Encounters[LastOf("p")].by = "@arm-debug/a"
    /\ ResolvedValue("p") = Encounters[FirstOf("p")].range

\* the names the traversal meets again at a range other than the recorded one
RECURSIVE Conflicts(_)
Conflicts(i) ==
    IF i > Len(Encounters) THEN <<>>
    ELSE (IF /\ FirstOf(Encounters[i].name) < i
             /\ Encounters[i].range # Encounters[FirstOf(Encounters[i].name)].range
          THEN <<Encounters[i].name>> ELSE <<>>) \o Conflicts(i + 1)

\* C16: the warnings of a resolution are exactly the re-encounters of a name at
\* a range other than the recorded one.
C16_WarnsOnDifferentRange ==
    (Resolved /\ error = "") => warnings = Conflicts(1)

\* the names the traversal looks at: the packages it descends into and the
\* runtime names they list
Referenced ==
    Visited \cup {d \in UNION {ListedNames(n) : n \in Visited} : RuntimeName(d)}

\* C17 as the specification words it: resolution fails when any name it refers
\* to, internal or not, has no package in the lock file.
C17_AnyAbsentNameFails ==
    (Resolved /\ \E n \in Referenced : ~HasPackage(n)) => error # ""

\* C17: resolution fails, and leaves no resolved set, when the root or an
\* internal package it descends into has no package in the lock file, and it
\* throws "Cannot resolve" for no other reason; a runtime name without a
\* package is recorded like any other.
C17_AbsentInternalFails ==
    Resolved =>
        /\ (\E n \in Visited : ~HasPackage(n))
              => error # "" /\ lockedDepencencies = <<>>
        /\ error = "Cannot resolve" => \E n \in Visited : ~HasPackage(n)
        /\ error = "" =>
              \A d \in Referenced \ Visited : d \in ResolvedKeys

\* a lock file that lacks a listed internal package fails to resolve although
\* the root is there
C17_Witness ==
    /\ Resolved /\ HasPackage("") /\ error = "Cannot resolve"
    /\ "@arm-debug/b" \in Visited /\ ~HasPackage("@arm-debug/b")
    /\ "p" \in ListedNames("") /\ lockedDepencencies = <<>>

\* a runtime name the lock file has no package for is resolved, and appended
\* with the placeholder for its version
C17_UnlockedRuntimeRecorded ==
    /\ Exited /\ error = "" /\ ~HasPackage("p") /\ "p" \in ResolvedKeys
    /\ \E i \in AppendedPositions :
          tpipJson[i].name = "p" /\ tpipJson[i].version = "<FIXME>"

\* C18: a lock file whose internal packages do not depend on themselves never
\* exhausts the stack: resolution ends with a resolved set or with "Cannot
\* resolve"; one with an internal package among its own descendants never
\* yields a resolved set.
C18_AcyclicTerminatesCyclicFails ==
    Resolved =>
        /\ ~Cyclic => error \in {"", "Cannot resolve"}
        /\ Cyclic => error # "" /\ lockedDepencencies = <<>>

\* two internal packages that list each other: the recursion ends in RangeError
C18_Witness ==
    /\ Resolved /\ error = "RangeError" /\ lockedDepencencies = <<>>
    /\ "@arm-debug/b" \in ListedNames("@arm-debug/a")
    /\ "@arm-debug/a" \in ListedNames("@arm-debug/b")
    /\ ListedNames("") = {"@arm-debug/a"}

\* C19: after a run whose resolution succeeded, every resolved name is the name
\* of an entry of the written manifest.
C19_ResolvedNamesCatalogued ==
    (Exited /\ error = "") =>
        \A k \in ResolvedKeys :
            \E i \in DOMAIN WrittenManifest : WrittenManifest[i].name = k

\* two names were resolved, one tracked by the input and one appended by the run
C19_Witness ==
    /\ Exited /\ error = "" /\ ResolvedKeys = {"p", "q"} /\ Len(missing) = 1
    /\ \E i \in DOMAIN input : input[i].name \in ResolvedKeys
    /\ \A k \in ResolvedKeys :
          \E i \in DOMAIN WrittenManifest : WrittenManifest[i].name = k

\* C20: the written manifest starts with the input's entries, in order, with
\* name, url and license as they were; the version or the spdx of an input
\* entry differs only if the lock file has its name at another version than
\* the input tracked.
C20_InputIsPrefixOfWritten ==
    Exited =>
        /\ Len(WrittenManifest) >= Len(input)
        /\ \A i \in DOMAIN input :
              /\ WrittenManifest[i].name = input[i].name
              /\ WrittenManifest[i].url = input[i].url
              /\ WrittenManifest[i].license = input[i].license
              /\ (\/ WrittenManifest[i].version # input[i].version
                  \/ WrittenManifest[i].spdx # input[i].spdx)
                    => /\ IsLocked(input[i].name)
                       /\ input[i].version # LockedVersion(input[i].name)

\* of two input entries the run changed one, left the other and appended a third
C20_Witness ==
    /\ Exited /\ Len(input) = 2 /\ Len(WrittenManifest) = 3
    /\ WrittenManifest[1] # input[1] /\ WrittenManifest[2] = input[2]
    /\ IsLocked(input[2].name) /\ input[2].spdx # DeclaredLicense(input[2].name)

(* ------------------------------------------------------------------ *)
(* Properties of index.ts                                             *)
(* ------------------------------------------------------------------ *)
\* C13: greet returns "Hello, " and the name, then "!" when excited and "."
\* when not; an omitted name is "World", an omitted excited is true, and an
\* empty name is kept.
C13_GreetFormat ==
    greeting # <<>> =>
        LET arg == greeting[1].arg
            n == IF arg = <<>> THEN <<"W", "o", "r", "l", "d">>
                 ELSE IF arg[1].name = <<>> THEN <<"W", "o", "r", "l", "d">>
                 ELSE arg[1].name[1]
            e == IF arg = <<>> THEN TRUE
                 ELSE IF arg[1].excited = <<>> THEN TRUE
                 ELSE arg[1].excited[1]
        IN  greeting[1].message =
                <<"H", "e", "l", "l", "o", ",", " ">> \o n \o <<IF e THEN "!" ELSE ".">>

\* greet({ name: '' }) has returned 'Hello, !'
C13_Witness ==
    /\ greeting # <<>>
    /\ greeting[1].arg = <<[name |-> << <<>> >>, excited |-> <<>>]>>
    /\ greeting[1].message = <<"H", "e", "l", "l", "o", ",", " ", "!">>

(* ------------------------------------------------------------------ *)
(* Properties of a run whose resolution failed                        *)
(* ------------------------------------------------------------------ *)
\* what the drift pass makes of the version and spdx of input entry i
DriftedVersion(i) ==
    IF IsLocked(input[i].name) /\ input[i].version # LockedVersion(input[i].name)
    THEN LockedVersion(input[i].name) ELSE input[i].version
DriftedSpdx(i) ==
    IF IsLocked(input[i].name) /\ input[i].version # LockedVersion(input[i].name)
    THEN DeclaredLicense(input[i].name) ELSE input[i].spdx

\* the root lists a runtime name first, so that it is recorded before anything
\* can fail
RootRecordsFirst ==
    /\ <<"">> \in DOMAIN lockJson.packages
    /\ Len(lockJson.packages[<<"">>].dependencies) >= 2
    /\ lockJson.packages[<<"">>].dependencies[1].name \in {"p", "q"}

\* C21: a run whose resolution failed has an empty resolved set whatever was
\* recorded before the failure, appends no entry, and still writes the
\* manifest with the drifted versions and licenses of the tracked entries.
C21_FailedResolutionKeepsNothing ==
    (error # "" /\ pc \in {"missing", "drift", "write", "exit"}) =>
        /\ lockedDepencencies = <<>>
        /\ missing = <<>>
        /\ Len(tpipJson) = Len(input)
        /\ pc = "exit" =>
              /\ Len(written) = run
              /\ written[run] = file
              /\ Len(WrittenManifest) = Len(input)
              /\ \A i \in DOMAIN input :
                    /\ WrittenManifest[i].version = DriftedVersion(i)
                    /\ WrittenManifest[i].spdx = DriftedSpdx(i)

\* a first run failed after the root's first dependency, a runtime name the
\* manifest does not track, had been recorded; the tracked entry was drifted
\* in version and license and written
C21_Witness ==
    /\ pc = "exit"
    /\ run = 1
    /\ error # ""
    /\ RootRecordsFirst
    /\ lockJson.packages[<<"">>].dependencies[1].name = "q"
    /\ input[1].version # WrittenManifest[1].version
    /\ input[1].spdx # WrittenManifest[1].spdx
    /\ Len(WrittenManifest) = 1

(* ------------------------------------------------------------------ *)
(* Properties of a run on the manifest the run before it wrote        *)
(* ------------------------------------------------------------------ *)
HasSentinel(manifest) ==
    \E i \in DOMAIN manifest :
        \/ manifest[i].version = "<FIXME>"
        \/ manifest[i].spdx = "<FIXME>"
        \/ manifest[i].url = "<FIXME>"
        \/ manifest[i].license = "<FIXME>"

\* C22: where resolution succeeds, a run that appended entries leaves a
\* sentinel in the file, and a run on the file the run before it wrote
\* appends nothing, changes no version or spdx, and exits 1 when its input
\* carries a sentinel and 0 when it does not.
C22_SecondRunSettles ==
    (pc = "exit" /\ error = "") =>
        /\ missing # <<>> => HasSentinel(WrittenManifest)
        /\ run > 1 =>
              /\ missing = <<>>
              /\ Len(WrittenManifest) = Len(input)
              /\ \A i \in DOMAIN input :
                    /\ WrittenManifest[i].version = input[i].version
                    /\ WrittenManifest[i].spdx = input[i].spdx
              /\ result = IF HasSentinel(input) THEN 1 ELSE 0

\* the second run exited 1 on a manifest holding an entry that only the first
\* run's missing block can have written: sentinel url and sentinel license
C22_Witness ==
    /\ pc = "exit"
    /\ run = 2
    /\ error = ""
    /\ result = 1
    /\ missing = <<>>
    /\ input[Len(input)].url = "<FIXME>"
    /\ input[Len(input)].license = "<FIXME>"
    /\ parse(written[1]) = input

(* ------------------------------------------------------------------ *)
(* Properties of the appended entries                                 *)
(* ------------------------------------------------------------------ *)
DistinctNames(manifest) ==
    \A i, j \in DOMAIN manifest : manifest[i].name = manifest[j].name => i = j

InputNames == {input[i].name : i \in DOMAIN input}

\* the missing block has run: every resolved name the input does not track is
\* reported once and has one appended entry, and distinct input names give
\* distinct names in memory and in the file
C23_AppendedOnce ==
    pc \in {"drift", "write", "exit"} =>
        /\ \A i, j \in DOMAIN missing : missing[i] = missing[j] => i = j
        /\ {missing[i] : i \in DOMAIN missing} = ResolvedKeys \ InputNames
        /\ Len(tpipJson) = Len(input) + Len(missing)
        /\ \A n \in ResolvedKeys \ InputNames :
              Cardinality({i \in DOMAIN tpipJson : tpipJson[i].name = n}) = 1
        /\ DistinctNames(input) =>
              /\ DistinctNames(tpipJson)
              /\ pc = "exit" => DistinctNames(WrittenManifest)

\* the drift pass leaves every appended entry as the missing block pushed it
C23_DriftKeepsAppended ==
    pc = "drift" => \A i \in AppendedPositions : tpipJson'[i] = tpipJson[i]

\* C23: each missing dependency name is appended exactly once per run, the
\* drift pass of the run does not modify an appended entry, and a manifest
\* whose input names are pairwise distinct is written with pairwise distinct
\* names.
C23_AppendedOnceAndUntouched ==
    []C23_AppendedOnce /\ [][C23_DriftKeepsAppended]_vars

\* a run on a manifest tracking q alone appended the locked p, drifted q's
\* version, and has written both
C23_Witness ==
    /\ pc = "exit"
    /\ Len(input) = 1
    /\ input[1].name = "q"
    /\ input[1].version # WrittenManifest[1].version
    /\ missing = <<"p">>
    /\ IsLocked("p")
    /\ Len(WrittenManifest) = 2
    /\ WrittenManifest[2].name = "p"

(* ------------------------------------------------------------------ *)
(* Properties of the entry point of index.ts                          *)
(* ------------------------------------------------------------------ *)
Given(value) == value # <<>> /\ value[1] # <<>>

\* C24: the entry point logs one greeting: of the command-line argument when
\* it is given and not empty, else of NAME when that is given and not empty,
\* else of "World", never of the empty name; it ends with "." when EXCITED is
\* the string "false" and with "!" otherwise.
C24_EntryGreeting ==
    logged # <<>> =>
        LET n == IF Given(process.argv) THEN process.argv[1]
                 ELSE IF Given(process.NAME) THEN process.NAME[1]
                 ELSE <<"W", "o", "r", "l", "d">>
            mark == IF process.EXCITED = << <<"f", "a", "l", "s", "e">> >>
                    THEN "." ELSE "!"
        IN  /\ Len(logged) = 1
            /\ logged[1] = <<"H", "e", "l", "l", "o", ",", " ">> \o n \o <<mark>>
            /\ logged[1] # <<"H", "e", "l", "l", "o", ",", " ", "!">>

\* started with an empty argument, NAME=Al and EXCITED=false, the entry point
\* has logged 'Hello, Al.'
C24_Witness ==
    /\ process.argv = << <<>> >>
    /\ process.NAME = << <<"A", "l">> >>
    /\ process.EXCITED = << <<"f", "a", "l", "s", "e">> >>
    /\ logged = << <<"H", "e", "l", "l", "o", ",", " ", "A", "l", ".">> >>

====
